---- MODULE Spec2Model ----
(***************************************************************************)
(* Model of chapter_01/hello_world/advanced_hello.py: the greeting         *)
(* formatter, the Fibonacci generator, the properties analyzer and the     *)
(* CLI driver main().                                                      *)
(*                                                                         *)
(* Representation of Python values:                                        *)
(*   - int    arbitrary precision, so a little-endian sequence of limbs in *)
(*            base LimbBase (TLC's own integers are 32 bits wide and       *)
(*            F_47 already exceeds them); only naturals occur;             *)
(*   - float  the quotient of two ints, kept as the exact fraction         *)
(*            [num, den]; two floats are equal when the fractions are     *)
(*            (rounding to 53 bits is left out: it cannot merge or swap    *)
(*            the ratios of the small sequences analysed here, but it     *)
(*            does from about the 40th Fibonacci ratio on);               *)
(*   - str    a sequence of one-character strings;                         *)
(*   - a call's outcome  [kind |-> "return", value |-> v] or               *)
(*            [kind |-> "raise", exc |-> type, msg |-> text].              *)
(***************************************************************************)
EXTENDS Integers, Sequences, FiniteSets, TLC

VARIABLES
    f_n, f_ret,                   \* calculate_fibonacci: argument, outcome
    a_n, a_seq, a_ret,            \* analyze_fibonacci_properties: origin, argument, outcome
    g_name, g_hour, g_ret,        \* generate_greeting: argument, clock hour, outcome
    pc, user_name, greeting, count_entry, fib_length_str, fib_length, fib_numbers,
    out, exit_code                \* main(): position, locals, what input() met at the
                                  \* term-count prompt, printed lines, exit status

fibVars   == <<f_n, f_ret>>
anaVars   == <<a_n, a_seq, a_ret>>
greetVars == <<g_name, g_hour, g_ret>>
mainVars  == <<pc, user_name, greeting, count_entry, fib_length_str, fib_length,
               fib_numbers, out, exit_code>>
vars      == <<fibVars, anaVars, greetVars, mainVars>>

\* ------------------------------------------------------------------ bounds
MaxN        == 25   \* calculate_fibonacci is called with n in -MaxN..MaxN
MaxSeqLen   == 4    \* analyzer inputs have at most this many elements
MaxElem     == 3    \* ... each in 0..MaxElem
MaxFibArg   == 8    \* analyzer inputs also include calculate_fibonacci(1..MaxFibArg)
MaxNameLen  == 3    \* characters of a name handed to generate_greeting
MaxNameKeys == 1    \* characters typed at the name prompt of main()
MaxCountKeys == 2   \* characters typed at the term-count prompt of main()

\* --------------------------------------------------------- Python int
LimbBase == 10 ^ 4

NoCall == [kind |-> "none"]
Return(v) == [kind |-> "return", value |-> v]
Raise(e, m) == [kind |-> "raise", exc |-> e, msg |-> m]

RECURSIVE IntOf(_)
IntOf(k) == IF k < LimbBase THEN <<k>> ELSE <<k % LimbBase>> \o IntOf(k \div LimbBase)

RECURSIVE IntVal(_)
IntVal(x) == IF Len(x) = 1 THEN x[1] ELSE x[1] + LimbBase * IntVal(Tail(x))

RECURSIVE Normal(_)
Normal(x) ==
    IF Len(x) > 1 /\ x[Len(x)] = 0 THEN Normal(SubSeq(x, 1, Len(x) - 1)) ELSE x

RECURSIVE AddLimbs(_, _, _)
AddLimbs(x, y, carry) ==
    IF x = <<>> /\ y = <<>>
    THEN IF carry = 0 THEN <<>> ELSE <<carry>>
    ELSE LET xd == IF x = <<>> THEN 0 ELSE Head(x)
             yd == IF y = <<>> THEN 0 ELSE Head(y)
             s  == xd + yd + carry
         IN  <<s % LimbBase>> \o
             AddLimbs(IF x = <<>> THEN x ELSE Tail(x),
                      IF y = <<>> THEN y ELSE Tail(y), s \div LimbBase)

IntAdd(x, y) == Normal(AddLimbs(x, y, 0))

RECURSIVE SubLimbs(_, _, _)
SubLimbs(x, y, borrow) ==
    IF x = <<>>
    THEN <<>>
    ELSE LET yd == IF y = <<>> THEN 0 ELSE Head(y)
             d  == Head(x) - yd - borrow
         IN  <<d % LimbBase>> \o
             SubLimbs(Tail(x), IF y = <<>> THEN y ELSE Tail(y),
                      IF d < 0 THEN 1 ELSE 0)

\* x - y for x >= y
IntSub(x, y) == Normal(SubLimbs(x, y, 0))

RECURSIVE MulLimb(_, _, _)
MulLimb(x, d, carry) ==
    IF x = <<>>
    THEN IF carry = 0 THEN <<>> ELSE <<carry>>
    ELSE LET p == Head(x) * d + carry
         IN  <<p % LimbBase>> \o MulLimb(Tail(x), d, p \div LimbBase)

RECURSIVE MulLimbs(_, _)
MulLimbs(x, y) ==
    IF y = <<>>
    THEN <<0>>
    ELSE AddLimbs(MulLimb(x, Head(y), 0), <<0>> \o MulLimbs(x, Tail(y)), 0)

IntMul(x, y) == Normal(MulLimbs(x, y))

RECURSIVE LimbsLess(_, _, _)
\* x < y for normal x, y of the same length, scanned from limb i down
LimbsLess(x, y, i) ==
    IF i = 0 THEN FALSE
    ELSE IF x[i] # y[i] THEN x[i] < y[i]
    ELSE LimbsLess(x, y, i - 1)

IntLess(x, y) ==
    IF Len(x) # Len(y) THEN Len(x) < Len(y) ELSE LimbsLess(x, y, Len(x))

IntLeq(x, y) == ~IntLess(y, x)

IntZero == <<0>>

\* ------------------------------------------------------------ for loops
\* F(v), with v computed once and before F is applied. (TLC hands an operator's
\* arguments and a LET's definitions on unevaluated: it may compute them again
\* at every use, and pending ones pile up on its stack.)
Bind(v, F(_)) == CHOOSE r \in {F(x) : x \in {v}} : TRUE

RECURSIVE ForRange(_, _, _, _)
\* for i in range(lo, hi): state = Body(state, i)
\* The iterations run in order, lo first: the first half of the range, then,
\* from the state it leaves, the second half.
ForRange(Body(_, _), state, lo, hi) ==
    IF hi <= lo THEN state
    ELSE IF hi = lo + 1 THEN Body(state, lo)
    ELSE LET mid == (lo + hi) \div 2
         IN  Bind(ForRange(Body, state, lo, mid),
                  LAMBDA first : ForRange(Body, first, mid, hi))

\* ------------------------------------------------- calculate_fibonacci
\* fault variant: the last term added to itself
FibStepLastTwice(fib_sequence, i) ==
    Append(fib_sequence, IntAdd(fib_sequence[Len(fib_sequence)],
                                fib_sequence[Len(fib_sequence)]))

\* next_term = fib_sequence[-1] + fib_sequence[-2]; fib_sequence.append(next_term)
FibStep(fib_sequence, i) ==
    LET next_term == IntAdd(fib_sequence[Len(fib_sequence)],
                            fib_sequence[Len(fib_sequence) - 1])
    IN  Append(fib_sequence, next_term)

\* for i in range(2, n): ...
FibLoop(fib_sequence, n) == ForRange(FibStep, fib_sequence, 2, n)

\* fault variant: only a negative n is refused
CalculateFibonacciZeroAllowed(n) ==
    IF n < 0 THEN Raise("ValueError", "n must be a positive integer")
    ELSE IF n = 1 THEN Return(<<IntOf(0)>>)
    ELSE IF n = 2 THEN Return(<<IntOf(0), IntOf(1)>>)
    ELSE Return(FibLoop(<<IntOf(0), IntOf(1)>>, n))

calculate_fibonacci(n) ==
    IF n <= 0 THEN Raise("ValueError", "n must be a positive integer")
    ELSE IF n = 1 THEN Return(<<IntOf(0)>>)
    ELSE IF n = 2 THEN Return(<<IntOf(0), IntOf(1)>>)
    ELSE Return(FibLoop(<<IntOf(0), IntOf(1)>>, n))

\* -------------------------------------------------------- Python float
\* x / y, y # 0: true division of two ints
TrueDiv(x, y) == [num |-> x, den |-> y]

FloatEq(r, s) == IntMul(r.num, s.den) = IntMul(s.num, r.den)

FloatLess(r, s) == IntLess(IntMul(r.num, s.den), IntMul(s.num, r.den))

IntFive == IntOf(5)

\* r < golden_ratio = (1 + sqrt(5)) / 2, that is 2*num - den < den * sqrt(5)
BelowPhi(r) ==
    LET twice == IntAdd(r.num, r.num)
    IN  IF IntLeq(twice, r.den) THEN TRUE
        ELSE LET d == IntSub(twice, r.den)
             IN  IntLess(IntMul(d, d), IntMul(IntFive, IntMul(r.den, r.den)))

\* abs(ratio - golden_ratio): golden_ratio is irrational, so the value is
\* determined by the ratio and is kept as the ratio it was computed from
AbsDiffPhi(ratio) == [off |-> ratio]

\* r.num/r.den + s.num/s.den < 1 + sqrt(5)
SumBelowTwoPhi(r, s) ==
    LET X == IntAdd(IntMul(r.num, s.den), IntMul(s.num, r.den))
        Y == IntMul(r.den, s.den)
    IN  IF IntLeq(X, Y) THEN TRUE
        ELSE LET d == IntSub(X, Y)
             IN  IntLess(IntMul(d, d), IntMul(IntFive, IntMul(Y, Y)))

\* d1 < d2 for d1 = abs(r - phi), d2 = abs(s - phi)
DiffLess(d1, d2) ==
    LET r == d1.off
        s == d2.off
    IN  IF BelowPhi(r)
        THEN IF BelowPhi(s) THEN FloatLess(s, r) ELSE ~SumBelowTwoPhi(r, s)
        ELSE IF BelowPhi(s) THEN SumBelowTwoPhi(r, s) ELSE FloatLess(r, s)

DiffEq(d1, d2) == FloatEq(d1.off, d2.off)

\* ------------------------------------------------------ Python builtins
\* sum(xs): the items added to 0 from left to right
PySum(xs) ==
    LET Add(total, i) == IntAdd(total, xs[i + 1])
    IN  ForRange(Add, IntZero, 0, Len(xs))

\* max(xs), xs not empty: a later item replaces the best only when greater
PyMax(xs) ==
    LET Keep(best, i) == IF IntLess(best, xs[i + 1]) THEN xs[i + 1] ELSE best
    IN  ForRange(Keep, xs[1], 1, Len(xs))

\* min(xs), xs not empty: a later item replaces the best only when smaller
PyMin(xs) ==
    LET Keep(best, i) == IF IntLess(xs[i + 1], best) THEN xs[i + 1] ELSE best
    IN  ForRange(Keep, xs[1], 1, Len(xs))

\* min(ds) over the differences
PyMinDiff(ds) ==
    LET Keep(best, i) == IF DiffLess(ds[i + 1], best) THEN ds[i + 1] ELSE best
    IN  ForRange(Keep, ds[1], 1, Len(ds))

NotFound == -1

\* fault variant: the last position holding an equal item
PyIndexLast(ds, x) ==
    LET Look(found, i) == IF DiffEq(ds[i + 1], x) THEN i ELSE found
    IN  ForRange(Look, NotFound, 0, Len(ds))

\* ds.index(x), 0-based, for x in ds: the first position holding an equal item
PyIndex(ds, x) ==
    LET Look(found, i) ==
            IF found # NotFound THEN found
            ELSE IF DiffEq(ds[i + 1], x) THEN i ELSE NotFound
    IN  ForRange(Look, NotFound, 0, Len(ds))

\* ---------------------------------------- analyze_fibonacci_properties
\* fault variant: a zero predecessor yields a 0 placeholder instead of nothing
RatioLoopPlaceholder(fib_sequence) ==
    LET Step(ratios, i) ==
            IF fib_sequence[i] # IntZero
            THEN Append(ratios, TrueDiv(fib_sequence[i + 1], fib_sequence[i]))
            ELSE Append(ratios, TrueDiv(IntZero, IntOf(1)))
    IN  ForRange(Step, <<>>, 1, Len(fib_sequence))

\* for i in range(1, len(fib_sequence)): the ratio of a non-zero predecessor
RatioLoop(fib_sequence) ==
    LET Step(ratios, i) ==
            IF fib_sequence[i] # IntZero
            THEN Append(ratios, TrueDiv(fib_sequence[i + 1], fib_sequence[i]))
            ELSE ratios
    IN  ForRange(Step, <<>>, 1, Len(fib_sequence))

TooShort == [error |-> "Sequence too short for analysis"]

\* fault variant: only the empty sequence is too short
IsTooShortEmptyOnly(fib_sequence) == Len(fib_sequence) < 1

\* if len(fib_sequence) < 2
IsTooShort(fib_sequence) == Len(fib_sequence) < 2

\* fault variant: the index of the best approximation is not recorded
WithBestNoIndex(properties, approximations) ==
    Bind(PyMinDiff(approximations), LAMBDA best :
    [properties EXCEPT !.golden_ratio_approximations = approximations]
    @@ [best_approximation |-> best])

\* the three entries set when there is at least one ratio
WithBest(properties, approximations) ==
    Bind(PyMinDiff(approximations), LAMBDA best :
    [properties EXCEPT !.golden_ratio_approximations = approximations]
    @@ [best_approximation |-> best,
        best_approximation_index |-> PyIndex(approximations, best)])

analyze_fibonacci_properties(fib_sequence) ==
    IF IsTooShort(fib_sequence)
    THEN TooShort
    ELSE Bind(RatioLoop(fib_sequence), LAMBDA ratios :
         LET properties ==
                 [sequence_length |-> Len(fib_sequence),
                  sum     |-> PySum(fib_sequence),
                  max     |-> PyMax(fib_sequence),
                  min     |-> PyMin(fib_sequence),
                  average |-> TrueDiv(PySum(fib_sequence), IntOf(Len(fib_sequence))),
                  ratios  |-> ratios,
                  golden_ratio_approximations |-> <<>>]
         IN  IF Len(ratios) > 0
             THEN Bind([k \in 1..Len(ratios) |-> AbsDiffPhi(ratios[k])],
                       LAMBDA approximations : WithBest(properties, approximations))
             ELSE properties)

\* ------------------------------------------------------------ Python str
Whitespace == {" ", "\t", "\n"}

RECURSIVE lstrip(_)
lstrip(s) == IF s # <<>> /\ Head(s) \in Whitespace THEN lstrip(Tail(s)) ELSE s

RECURSIVE rstrip(_)
rstrip(s) ==
    IF s # <<>> /\ s[Len(s)] \in Whitespace THEN rstrip(SubSeq(s, 1, Len(s) - 1)) ELSE s

\* fault variant: nothing is stripped
StripNothing(s) == s

strip(s) == rstrip(lstrip(s))

\* a value handed to generate_greeting: its type and, for a str, its characters
Str(s) == [type |-> "str", val |-> s]

NonStr ==
    {[type |-> "int", val |-> <<"1", "2", "3">>],
     [type |-> "float", val |-> <<"4", "5", ".", "6", "7">>],
     [type |-> "NoneType", val |-> <<>>],
     [type |-> "list", val |-> <<>>],
     [type |-> "dict", val |-> <<>>]}

\* ---------------------------------------------------- generate_greeting
Hours == 0..23

GoodMorning   == <<"G", "o", "o", "d", " ", "m", "o", "r", "n", "i", "n", "g">>
GoodAfternoon == <<"G", "o", "o", "d", " ", "a", "f", "t", "e", "r", "n", "o", "o", "n">>
GoodEvening   == <<"G", "o", "o", "d", " ", "e", "v", "e", "n", "i", "n", "g">>
GoodNight     == <<"G", "o", "o", "d", " ", "n", "i", "g", "h", "t">>

\* the tail of the f-string: "! " and the waving-hand sign U+1F44B
Wave == <<"!", " ", "U+1F44B">>

TimeGreeting(current_hour) ==
    IF 5 <= current_hour /\ current_hour < 12 THEN GoodMorning
    ELSE IF 12 <= current_hour /\ current_hour < 18 THEN GoodAfternoon
    ELSE IF 18 <= current_hour /\ current_hour < 22 THEN GoodEvening
    ELSE GoodNight

\* fault variant: the name is trimmed before it is embedded
FormatGreetingTrimmed(time_greeting, name) ==
    time_greeting \o <<",", " ">> \o rstrip(lstrip(name)) \o Wave

\* f"{time_greeting}, {name}! <wave>"
FormatGreeting(time_greeting, name) == time_greeting \o <<",", " ">> \o name \o Wave

generate_greeting(name, current_hour) ==
    IF name.type # "str"
    THEN Raise("TypeError", "Name must be a string")
    ELSE IF strip(name.val) = <<>>
    THEN Raise("ValueError", "Name cannot be empty or whitespace only")
    ELSE Return(FormatGreeting(TimeGreeting(current_hour), name.val))

\* ------------------------------------------------------- get_user_input
\* what input() meets: a typed line, or EOFError / KeyboardInterrupt
Typed(s) == [kind |-> "line", val |-> s]
Cancelled == {[kind |-> "EOFError", val |-> <<>>],
              [kind |-> "KeyboardInterrupt", val |-> <<>>]}

\* the value returned and the lines printed besides the prompt
get_user_input(prompt, default, entry) ==
    IF entry.kind = "line"
    THEN LET user_input == strip(entry.val)
         IN  [value   |-> IF user_input # <<>> THEN user_input ELSE default,
              printed |-> <<prompt>>]
    ELSE [value |-> default, printed |-> <<prompt, "Input cancelled by user.">>]

\* ----------------------------------------------------------------- int()
DigitVal == ("0" :> 0) @@ ("1" :> 1) @@ ("2" :> 2) @@ ("3" :> 3) @@ ("4" :> 4) @@
            ("5" :> 5) @@ ("6" :> 6) @@ ("7" :> 7) @@ ("8" :> 8) @@ ("9" :> 9)

RECURSIVE DigitsVal(_, _)
DigitsVal(acc, s) == IF s = <<>> THEN acc ELSE DigitsVal(10 * acc + DigitVal[Head(s)], Tail(s))

\* int(s) for a str: surrounding whitespace, an optional sign, decimal digits
PyInt(s) ==
    LET t      == strip(s)
        signed == t # <<>> /\ Head(t) \in {"+", "-"}
        digits == IF signed THEN Tail(t) ELSE t
    IN  IF digits = <<>> \/ \E k \in 1..Len(digits) : digits[k] \notin DOMAIN DigitVal
        THEN Raise("ValueError", "invalid literal for int() with base 10")
        ELSE Return(IF signed /\ Head(t) = "-"
                    THEN 0 - DigitsVal(0, digits) ELSE DigitsVal(0, digits))

\* --------------------------------------------- display_mathematical_demo
\* the lines printed (by their labels) and how the call ends
display_mathematical_demo(fib_sequence) ==
    Bind(analyze_fibonacci_properties(fib_sequence), LAMBDA properties :
    LET listing == <<"MATHEMATICAL DEMONSTRATION", "Fibonacci Sequence">>
                   \o [i \in 1..Len(fib_sequence) |-> "F_i"]
                   \o <<"Mathematical Properties:">>
        stats   == <<"Sum of sequence", "Maximum value", "Minimum value", "Average value">>
    IN  IF "sum" \notin DOMAIN properties
        THEN [printed |-> listing, outcome |-> Raise("KeyError", "sum")]
        ELSE IF properties.ratios = <<>>
        THEN [printed |-> listing \o stats, outcome |-> Return(<<>>)]
        ELSE IF "best_approximation_index" \notin DOMAIN properties
        THEN [printed |-> listing \o stats \o <<"Consecutive Ratios">>
                          \o [i \in 1..Len(properties.ratios) |-> "Ratio i"]
                          \o <<"Golden Ratio">>,
              outcome |-> Raise("KeyError", "best_approximation_index")]
        ELSE [printed |-> listing \o stats \o <<"Consecutive Ratios">>
                          \o [i \in 1..Len(properties.ratios) |-> "Ratio i"]
                          \o <<"Golden Ratio", "Best approximation", "Difference">>,
              outcome |-> Return(<<>>)])

\* ------------------------------------------------------------------ main
DefaultName  == <<"W", "o", "r", "l", "d">>
DefaultCount == <<"1", "5">>
DefaultTerms == 15
MaxDisplay   == 50
NoExit       == -1    \* the process has not exited

Min(x, y) == IF x <= y THEN x ELSE y

\* fault variant: a parsed value is used whatever its sign
TermCountAnySign(s) ==
    LET r == PyInt(s)
    IN  IF r.kind = "raise"
        THEN [value |-> Min(DefaultTerms, MaxDisplay),
              printed |-> <<"Invalid number. Using default value (15).">>]
        ELSE [value |-> Min(r.value, MaxDisplay), printed |-> <<>>]

\* the try/except around int() and the clamp: the term count and the lines printed
TermCount(s) ==
    LET r == PyInt(s)
    IN  IF r.kind = "raise"
        THEN [value |-> Min(DefaultTerms, MaxDisplay),
              printed |-> <<"Invalid number. Using default value (15).">>]
        ELSE IF r.value <= 0
        THEN [value |-> Min(DefaultTerms, MaxDisplay),
              printed |-> <<"Invalid input. Using default value (15).">>]
        ELSE [value |-> Min(r.value, MaxDisplay), printed |-> <<>>]

SeqsUpTo(S, n) == UNION {[1..k -> S] : k \in 0..n}

NameKeys  == {" ", "a"}
CountKeys == {" ", "-", "0", "1", "5", "x"}
NameEntries  == {Typed(s) : s \in SeqsUpTo(NameKeys, MaxNameKeys)} \cup Cancelled
CountEntries == {Typed(s) : s \in SeqsUpTo(CountKeys, MaxCountKeys)} \cup Cancelled

\* except Exception as e: print the error, sys.exit(1)
Fail(e, printed) ==
    /\ out' = out \o printed \o <<"Error: " \o e.exc>>
    /\ exit_code' = 1
    /\ pc' = "exited"

IdleFib   == f_n = 0 /\ f_ret = NoCall
IdleAna   == a_n = 0 /\ a_seq = <<>> /\ a_ret = NoCall
IdleGreet == g_name = Str(<<>>) /\ g_hour = 0 /\ g_ret = NoCall
IdleMain  ==
    /\ pc = "idle" /\ user_name = <<>> /\ greeting = <<>>
    /\ count_entry = Typed(<<>>) /\ fib_length_str = <<>> /\ fib_length = 0
    /\ fib_numbers = <<>> /\ out = <<>> /\ exit_code = NoExit

InitMain ==
    /\ pc = "start" /\ user_name = <<>> /\ greeting = <<>>
    /\ count_entry = Typed(<<>>) /\ fib_length_str = <<>> /\ fib_length = 0
    /\ fib_numbers = <<>> /\ out = <<>> /\ exit_code = NoExit
    /\ IdleFib /\ IdleAna /\ IdleGreet

\* display_ascii_art(), display_system_info(), the input section's header
Banner ==
    /\ UNCHANGED <<fibVars, anaVars, greetVars>>
    /\ pc = "start"
    /\ out' = out \o <<"ASCII art", "SYSTEM INFORMATION", "USER INPUT SECTION">>
    /\ pc' = "ask_name"
    /\ UNCHANGED <<user_name, greeting, count_entry, fib_length_str, fib_length,
                   fib_numbers, exit_code>>

AskName ==
    /\ UNCHANGED <<fibVars, anaVars, greetVars>>
    /\ pc = "ask_name"
    /\ \E entry \in NameEntries :
         LET r == get_user_input("Please enter your name", DefaultName, entry)
         IN  /\ user_name' = r.value
             /\ out' = out \o r.printed
    /\ pc' = "greet"
    /\ UNCHANGED <<greeting, count_entry, fib_length_str, fib_length, fib_numbers,
                   exit_code>>

Greet ==
    /\ UNCHANGED <<fibVars, anaVars, greetVars>>
    /\ pc = "greet"
    /\ \E current_hour \in Hours :
         LET r == generate_greeting(Str(user_name), current_hour)
         IN  IF r.kind = "return"
             THEN /\ greeting' = r.value
                  /\ out' = out \o <<"greeting">>
                  /\ pc' = "ask_count"
                  /\ UNCHANGED exit_code
             ELSE /\ Fail(r, <<>>)
                  /\ UNCHANGED greeting
    /\ UNCHANGED <<user_name, count_entry, fib_length_str, fib_length, fib_numbers>>

AskCount ==
    /\ UNCHANGED <<fibVars, anaVars, greetVars>>
    /\ pc = "ask_count"
    /\ \E entry \in CountEntries :
         LET r == get_user_input("Enter number of Fibonacci terms to calculate",
                                 DefaultCount, entry)
         IN  /\ count_entry' = entry
             /\ fib_length_str' = r.value
             /\ out' = out \o r.printed
    /\ pc' = "parse"
    /\ UNCHANGED <<user_name, greeting, fib_length, fib_numbers, exit_code>>

ParseCount ==
    /\ UNCHANGED <<fibVars, anaVars, greetVars>>
    /\ pc = "parse"
    /\ LET r == TermCount(fib_length_str)
       IN  /\ fib_length' = r.value
           /\ out' = out \o r.printed
    /\ pc' = "calculate"
    /\ UNCHANGED <<user_name, greeting, count_entry, fib_length_str, fib_numbers,
                   exit_code>>

Calculate ==
    /\ UNCHANGED <<fibVars, anaVars, greetVars>>
    /\ pc = "calculate"
    /\ LET r == calculate_fibonacci(fib_length)
       IN  IF r.kind = "return"
           THEN /\ fib_numbers' = r.value
                /\ pc' = "demo"
                /\ UNCHANGED <<out, exit_code>>
           ELSE /\ Fail(r, <<>>)
                /\ UNCHANGED fib_numbers
    /\ UNCHANGED <<user_name, greeting, count_entry, fib_length_str, fib_length>>

Demo ==
    /\ UNCHANGED <<fibVars, anaVars, greetVars>>
    /\ pc = "demo"
    /\ LET r == display_mathematical_demo(fib_numbers)
       IN  IF r.outcome.kind = "return"
           THEN /\ out' = out \o r.printed
                /\ pc' = "summary"
                /\ UNCHANGED exit_code
           ELSE Fail(r.outcome, r.printed)
    /\ UNCHANGED <<user_name, greeting, count_entry, fib_length_str, fib_length,
                   fib_numbers>>

\* the completion message, the summary (with max(fib_numbers)), sys.exit(0)
Summary ==
    /\ UNCHANGED <<fibVars, anaVars, greetVars>>
    /\ pc = "summary"
    /\ out' = out \o <<"PROGRAM COMPLETED SUCCESSFULLY!", "Summary:", "Greeted",
                       "Calculated", "Max Fibonacci value">>
    /\ exit_code' = 0
    /\ pc' = "exited"
    /\ UNCHANGED <<user_name, greeting, count_entry, fib_length_str, fib_length,
                   fib_numbers>>

\* Ctrl+C while main() runs outside input(): except KeyboardInterrupt, sys.exit(130)
Interrupt ==
    /\ UNCHANGED <<fibVars, anaVars, greetVars>>
    /\ pc \notin {"idle", "exited"}
    /\ out' = out \o <<"Program interrupted by user.">>
    /\ exit_code' = 130
    /\ pc' = "exited"
    /\ UNCHANGED <<user_name, greeting, count_entry, fib_length_str, fib_length,
                   fib_numbers>>

NextMain ==
    \/ Banner \/ AskName \/ Greet \/ AskCount \/ ParseCount
    \/ Calculate \/ Demo \/ Summary \/ Interrupt

Spec == InitMain /\ [][NextMain]_vars

\* ------------------------------------- calculate_fibonacci on its own
InitFib ==
    /\ f_n \in (0 - MaxN)..MaxN
    /\ f_ret = NoCall
    /\ IdleAna /\ IdleGreet /\ IdleMain

CallFib ==
    /\ f_ret = NoCall
    /\ f_ret' = calculate_fibonacci(f_n)
    /\ UNCHANGED <<f_n, anaVars, greetVars, mainVars>>

SpecFib == InitFib /\ [][CallFib]_vars

\* ---------------------------- analyze_fibonacci_properties on its own
Elems == {IntOf(e) : e \in 0..MaxElem}

InitAnalyze ==
    /\ \/ a_n = 0 /\ a_seq \in SeqsUpTo(Elems, MaxSeqLen)
       \/ a_n \in 1..MaxFibArg /\ a_seq = calculate_fibonacci(a_n).value
    /\ a_ret = NoCall
    /\ IdleFib /\ IdleGreet /\ IdleMain

CallAnalyze ==
    /\ a_ret = NoCall
    /\ a_ret' = Return(analyze_fibonacci_properties(a_seq))
    /\ UNCHANGED <<a_n, a_seq, fibVars, greetVars, mainVars>>

SpecAnalyze == InitAnalyze /\ [][CallAnalyze]_vars

\* ----------------------------------------- generate_greeting on its own
NameChars == {" ", "\t", "a", "b"}

InitGreet ==
    /\ g_name \in {Str(s) : s \in SeqsUpTo(NameChars, MaxNameLen)} \cup NonStr
    /\ g_hour \in Hours
    /\ g_ret = NoCall
    /\ IdleFib /\ IdleAna /\ IdleMain

CallGreet ==
    /\ g_ret = NoCall
    /\ g_ret' = generate_greeting(g_name, g_hour)
    /\ UNCHANGED <<g_name, g_hour, fibVars, anaVars, mainVars>>

SpecGreet == InitGreet /\ [][CallGreet]_vars

\* ================================================================ claims
Prefixes == {GoodMorning, GoodAfternoon, GoodEvening, GoodNight}

FibReturned == f_ret.kind = "return"
Analyzed    == a_ret.kind = "return"
Report      == a_ret.value
Greeted     == g_ret.kind # "none"

\* C1: for every n >= 1, calculate_fibonacci(n) returns exactly n terms, the first
\* 0, the second (if any) 1, and every later one the sum of the two before it.
C1_FirstNTerms ==
    (f_n >= 1 /\ f_ret.kind # "none") =>
        /\ FibReturned
        /\ Len(f_ret.value) = f_n
        /\ IntVal(f_ret.value[1]) = 0
        /\ f_n >= 2 => IntVal(f_ret.value[2]) = 1
        /\ \A i \in 3..f_n :
               IntVal(f_ret.value[i]) =
                   IntVal(f_ret.value[i - 1]) + IntVal(f_ret.value[i - 2])

C1_Witness == f_n = MaxN /\ FibReturned /\ IntVal(f_ret.value[5]) = 3

\* C2: for every n <= 0, calculate_fibonacci(n) raises ValueError("n must be a
\* positive integer") and returns no sequence at all.
C2_NonPositiveRaises ==
    (f_n <= 0 /\ f_ret.kind # "none") =>
        /\ f_ret = Raise("ValueError", "n must be a positive integer")
        /\ "value" \notin DOMAIN f_ret

C2_Witness == f_n = 0 /\ f_ret.kind = "raise"

\* C3: a sequence of length 0 or 1 yields the marker, which carries the 'error'
\* entry and nothing else; a longer sequence yields a report without 'error'.
C3_TooShortMarker ==
    Analyzed =>
        IF Len(a_seq) < 2
        THEN /\ DOMAIN Report = {"error"}
             /\ Report.error = "Sequence too short for analysis"
        ELSE "error" \notin DOMAIN Report

C3_Witness == Analyzed /\ Len(a_seq) = 1 /\ "error" \in DOMAIN Report

\* the positions (1-based) of the non-zero predecessors, and the k-th of them
NonZeroPreds(seq) == {i \in 1..(Len(seq) - 1) : IntVal(seq[i]) # 0}
KthOf(S, k) == CHOOSE i \in S : Cardinality({j \in S : j < i}) = k - 1

BestKeys == {"best_approximation", "best_approximation_index"}

\* C5 as stated: every report of a sequence of length >= 2 contains the minimum
\* difference and the index of the ratio achieving it.
C5_AlwaysBest ==
    (Analyzed /\ Len(a_seq) >= 2) => BestKeys \subseteq DOMAIN Report

\* C5, amended: the report of a sequence of length >= 2 contains the minimum
\* difference and its index exactly when the ratio list is not empty; when every
\* predecessor is zero (as in [0, 1] and [0, 0]) it contains neither, and its
\* lists of ratios and of differences are empty.
C5_BestIffRatios ==
    (Analyzed /\ Len(a_seq) >= 2) =>
        IF NonZeroPreds(a_seq) # {}
        THEN /\ BestKeys \subseteq DOMAIN Report
             /\ Len(Report.golden_ratio_approximations) = Len(Report.ratios)
             /\ \E k \in 1..Len(Report.ratios) :
                    Report.best_approximation = Report.golden_ratio_approximations[k]
        ELSE /\ BestKeys \cap DOMAIN Report = {}
             /\ Report.ratios = <<>>
             /\ Report.golden_ratio_approximations = <<>>

C5_Witness ==
    /\ Analyzed /\ a_n = 3
    /\ BestKeys \subseteq DOMAIN Report /\ Report.best_approximation_index = 0

\* 10^6 * den * abs(num/den - phi), with phi taken as 1.618034: compared across
\* ratios by cross-multiplying with the denominators
Off6(r) ==
    LET d == 1000000 * IntVal(r.num) - 1618034 * IntVal(r.den)
    IN  IF d < 0 THEN 0 - d ELSE d
Closer(r, s) == Off6(r) * IntVal(s.den) < Off6(s) * IntVal(r.den)

\* C6: with a non-empty ratio list, best_approximation_index is a position of the
\* ratio list, the difference there is the least of all the differences, and it is
\* the first position with that difference.
C6_FirstMinimum ==
    (Analyzed /\ Len(a_seq) >= 2 /\ Report.ratios # <<>>) =>
        LET ratios == Report.ratios
            at     == Report.best_approximation_index + 1
        IN  /\ Report.best_approximation_index \in 0..(Len(ratios) - 1)
            /\ Report.best_approximation = Report.golden_ratio_approximations[at]
            /\ Report.golden_ratio_approximations[at] = AbsDiffPhi(ratios[at])
            /\ \A k \in 1..Len(ratios) : ~Closer(ratios[k], ratios[at])
            /\ \A k \in 1..(at - 1) : Closer(ratios[at], ratios[k])

\* a tie: the least difference occurs again after the position reported
C6_Witness ==
    /\ Analyzed /\ Len(a_seq) >= 2 /\ Report.ratios # <<>>
    /\ Report.best_approximation_index = 1
    /\ \E k \in 3..Len(Report.ratios) :
           /\ ~Closer(Report.ratios[2], Report.ratios[k])
           /\ ~Closer(Report.ratios[k], Report.ratios[2])

NotBlank(s) == \E k \in 1..Len(s) : s[k] \notin Whitespace

\* the surrounding whitespace removed, stated without strip()
Trimmed(s) ==
    LET inked == {k \in 1..Len(s) : s[k] \notin Whitespace}
    IN  IF inked = {} THEN <<>>
        ELSE SubSeq(s, CHOOSE k \in inked : \A j \in inked : k <= j,
                       CHOOSE k \in inked : \A j \in inked : j <= k)

\* C7 as stated: the greeting of a non-blank name embeds the name with its
\* surrounding whitespace trimmed.
C7_EmbedsTrimmed ==
    (Greeted /\ g_name.type = "str" /\ NotBlank(g_name.val)) =>
        /\ g_ret.kind = "return"
        /\ \E prefix \in Prefixes :
               g_ret.value = prefix \o <<",", " ">> \o Trimmed(g_name.val) \o Wave

\* C7, amended: the greeting of a non-blank name is '<prefix>, <name>! <wave>'
\* with the name embedded exactly as given, surrounding whitespace included
\* (the trimmed name is used only to decide that the name is not blank).
C7_EmbedsVerbatim ==
    (Greeted /\ g_name.type = "str" /\ NotBlank(g_name.val)) =>
        /\ g_ret.kind = "return"
        /\ g_ret.value = TimeGreeting(g_hour) \o <<",", " ">> \o g_name.val \o Wave

C7_Witness ==
    /\ Greeted /\ g_ret.kind = "return"
    /\ g_name.val = <<" ", "a", " ">>
    /\ g_ret.value = GoodNight \o <<",", " ", " ", "a", " ", "!", " ", "U+1F44B">>

\* C8: a greeting is returned only for a str with non-blank content; any other
\* type raises TypeError, a blank str raises ValueError, whatever the hour.
C8_Validation ==
    Greeted =>
        /\ g_name.type # "str" => g_ret = Raise("TypeError", "Name must be a string")
        /\ (g_name.type = "str" /\ ~NotBlank(g_name.val)) =>
               g_ret = Raise("ValueError", "Name cannot be empty or whitespace only")
        /\ g_ret.kind = "return" => (g_name.type = "str" /\ NotBlank(g_name.val))

C8_Witness ==
    /\ Greeted /\ g_hour = 13
    /\ g_name = Str(<<" ", "\t">>) /\ g_ret.kind = "raise" /\ g_ret.exc = "ValueError"

\* the term count the claim expects for what input() met at the prompt
ExpectedTerms(entry) ==
    IF entry.kind # "line" THEN 15
    ELSE LET r == PyInt(entry.val)
         IN  IF r.kind = "raise" THEN 15
             ELSE IF r.value <= 0 THEN 15
             ELSE IF r.value > 50 THEN 50 ELSE r.value

AfterParse == pc \in {"calculate", "demo", "summary"}

\* C9: whatever is entered at the term-count prompt, calculate_fibonacci is called
\* with a count in 1..50: 15 for a non-numeric or non-positive entry, else the
\* entry capped at 50; so the call never raises its ValueError.
C9_TermCountInRange ==
    /\ AfterParse =>
           /\ fib_length \in 1..50
           /\ fib_length = ExpectedTerms(count_entry)
    /\ pc \in {"demo", "summary"} => Len(fib_numbers) = fib_length
    /\ \A k \in 1..Len(out) : out[k] # "Error: ValueError"

C9_Witness ==
    /\ pc = "demo" /\ count_entry = Typed(<<"5", "1">>)
    /\ fib_length = 50 /\ Len(fib_numbers) = 50

Printed(line) == \E k \in 1..Len(out) : out[k] = line

\* C10: every run of main() that the user does not interrupt exits with code 0,
\* after the demonstration and the completion summary, for every name and every
\* term count entered, the count 1 included.
C10_ExitsZero ==
    (pc = "exited" /\ exit_code # 130) =>
        /\ exit_code = 0
        /\ Printed("MATHEMATICAL DEMONSTRATION")
        /\ Printed("Summary:")

====
